---- MODULE Spec2Model ----
(***************************************************************************)
(* Model of groqflow/justgroqit/export.py: the five export stages          *)
(* (ReceiveOnnxModel, ExportPytorchModel, OptimizeOnnxModel,               *)
(* CheckOnnxCompatibility, ConvertOnnxToFp16), the artifact validator      *)
(* _check_model, and the sequential executor that fires them over one      *)
(* build.State.                                                            *)
(*                                                                         *)
(* An optional Python value is a sequence of length 0 or 1: <<>> is None   *)
(* (or "no value"), <<v>> is the value v.                                  *)
(***************************************************************************)
EXTENDS Integers, Sequences, FiniteSets

VARIABLES
    model,                  \* state.model (never assigned by a stage)
    inputs,                 \* state.inputs: ordered dict, a sequence of [name, value]
    intermediate_results,   \* state.intermediate_results: list of paths
    info,                   \* state.info
    fs,                     \* the file system: path -> file
    ran,                    \* names of the stages fired so far, in order
    status,                 \* "running", "failed" or "done"
    err,                    \* the exception that left the last stage fired
    entry,                  \* model, inputs, intermediate_results, info and fs on entry of the last stage fired
    calls,                  \* external collaborators called by the last stage fired, in order
    log                     \* messages printed by the last stage fired, in order

vars == <<model, inputs, intermediate_results, info, fs, ran, status, err, entry, calls, log>>

----------------------------------------------------------------------------
(* build.py constants, as the messages of ReceiveOnnxModel.fire state them *)

MINIMUM_ONNX_OPSET == 11
DEFAULT_ONNX_OPSET == 13

(* Bounds of the model *)

MaxOpsetImports == 2     \* entries of model.opset_import
MaxGraphInputs == 1      \* declared graph inputs of the received model
MaxInputs == 2           \* keys of state.inputs
MaxCustomLen == 2        \* length of a user-defined stage sequence

----------------------------------------------------------------------------
(* Optional values *)

None == <<>>
Some(v) == <<v>>

(* Sequences without repetition of elements of S, of length at most n *)
SeqsUpTo(S, n) == UNION {[1..k -> S] : k \in 0..n}
DistinctSeqsUpTo(S, n) ==
    {s \in SeqsUpTo(S, n) : \A i, j \in 1..Len(s) : i # j => s[i] # s[j]}

Range(s) == {s[i] : i \in 1..Len(s)}

----------------------------------------------------------------------------
(* Paths.  state.model is the user's; the others are slots of build.State. *)

base_onnx_file == "build/onnx/model-base.onnx"
opt_onnx_file == "build/onnx/model-opt.onnx"
converted_onnx_file == "build/onnx/model-f16.onnx"
original_inputs_file == "build/inputs_original.npy"

UserOnnxPath == "model.onnx"
UserOtherPath == "model.pb"

Paths == {UserOnnxPath, UserOtherPath, base_onnx_file, opt_onnx_file,
          converted_onnx_file, original_inputs_file}

(* str.endswith(".onnx") on the paths of the model *)
EndsWithOnnx_AnySuffix(path) == path \in {UserOnnxPath, UserOtherPath}
EndsWithOnnx(path) ==
    path \in {UserOnnxPath, base_onnx_file, opt_onnx_file, converted_onnx_file}

----------------------------------------------------------------------------
(* Files.  kind: "none" (no file at the path), "corrupt" (not a protobuf), *)
(* "onnx" (a ModelProto) or "inputs" (what save_inputs wrote).  check is    *)
(* what onnx.checker.check_model does on the file: "pass", it raises       *)
(* "ValidationError", or it raises some "OtherError".                      *)

Checks == {"pass", "ValidationError", "OtherError"}

(* OperatorSetIdProto: domain "" is the default ONNX domain *)
OpsetEntries ==
    {[domain |-> "", version |-> v] :
        v \in {MINIMUM_ONNX_OPSET - 1, MINIMUM_ONNX_OPSET, DEFAULT_ONNX_OPSET}}
    \cup {[domain |-> "ai.onnx.ml", version |-> 2]}
OpsetImports == SeqsUpTo(OpsetEntries, MaxOpsetImports)

(* TensorShapeProto.Dimension: a oneof of dim_value and dim_param *)
DimValue(v) == [which |-> "dim_value", value |-> v, param |-> ""]
DimParam(p) == [which |-> "dim_param", value |-> 0, param |-> p]
Shapes == {<<>>,
           <<DimValue(1), DimValue(3)>>,
           <<DimValue(-1), DimValue(3)>>,
           <<DimValue(1), DimParam("unk__0")>>}
GraphInputs == SeqsUpTo(Shapes, MaxGraphInputs)

NoFile == [kind |-> "none", opset_import |-> <<>>, graph_input |-> <<>>,
           check |-> "ValidationError", saved |-> <<>>]
CorruptFile == [NoFile EXCEPT !.kind = "corrupt"]
OnnxFile(opset_import, graph_input, check) ==
    [kind |-> "onnx", opset_import |-> opset_import, graph_input |-> graph_input,
     check |-> check, saved |-> <<>>]
InputsFile(saved) == [NoFile EXCEPT !.kind = "inputs", !.saved = saved]

OnnxFiles == {OnnxFile(o, g, c) : o \in OpsetImports, g \in GraphInputs, c \in Checks}

----------------------------------------------------------------------------
(* state.model *)

ParamNames == {"x", "y"}
Signatures == {<<"x">>, <<"x", "y">>, <<"y", "x">>}

Model(kind, path, all_args) == [kind |-> kind, path |-> path, all_args |-> all_args]

(* state.inputs: an ordered dict.  The tensor the user gave for key k is <<k>>. *)
Item(name, value) == [name |-> name, value |-> value]
InputDicts ==
    {[i \in 1..Len(ks) |-> Item(ks[i], Some(ks[i]))] : ks \in DistinctSeqsUpTo(ParamNames, MaxInputs)}

keys(d) == [i \in 1..Len(d) |-> d[i].name]
values(d) == [i \in 1..Len(d) |-> d[i].value]
Min(a, b) == IF a <= b THEN a ELSE b
(* dict(zip(names, vals)): a later pair with the same key replaces the value *)
(* and keeps the position of the first                                       *)
zip(names, vals) == [i \in 1..Min(Len(names), Len(vals)) |-> Item(names[i], vals[i])]
RECURSIVE dict(_)
dict(pairs) ==
    IF pairs = <<>> THEN <<>>
    ELSE LET n == Len(pairs)
             init == dict(SubSeq(pairs, 1, n - 1))
             last == pairs[n]
         IN IF \E i \in 1..Len(init) : init[i].name = last.name
            THEN [i \in 1..Len(init) |->
                    IF init[i].name = last.name THEN last ELSE init[i]]
            ELSE Append(init, last)
(* d[k] for a key k of d *)
getitem(d, k) == d[CHOOSE i \in 1..Len(d) : d[i].name = k].value

----------------------------------------------------------------------------
(* state.info: every field is None until a stage assigns it *)

NoInfo == [base_onnx_exported |-> None,
           opset |-> None,
           opt_onnx_exported |-> None,
           opt_onnx_ops |-> None,
           opt_onnx_unsupported_ops |-> None,
           opt_onnx_all_ops_supported |-> None,
           converted_onnx_exported |-> None]

----------------------------------------------------------------------------
(* Exceptions.  msg is the template of the message; offending and listing  *)
(* are the values the f-string interpolates into it.                       *)

GroqitStageError == "GroqitStageError"

NoError == [type |-> "none", msg |-> "", offending |-> <<>>, listing |-> <<>>]
Error(type, msg) == [type |-> type, msg |-> msg, offending |-> <<>>, listing |-> <<>>]

(* The run of one fire(): the state and file system it leaves, the exception *)
(* that left it (NoError: it returned state), what it called and printed.     *)
Begin(inp, ir, inf, files) ==
    [inputs |-> inp, intermediate_results |-> ir, info |-> inf, fs |-> files,
     err |-> NoError, calls |-> <<>>, log |-> <<>>]
(* a faulty variant of Raise: the failing stage also drops the current artifact *)
Raise_ClearingResults(r, e) == [r EXCEPT !.err = e, !.intermediate_results = <<>>]
Raise(r, e) == [r EXCEPT !.err = e]
Call(r, fn) == [r EXCEPT !.calls = Append(@, fn)]
Emit(r, m) == [r EXCEPT !.log = Append(@, m)]

----------------------------------------------------------------------------
(* _check_model(onnx_file, success_message, fail_message).                  *)
(* The result is Some(TRUE), Some(FALSE), or None when the call raises.     *)

isfile(files, path) == files[path].kind # "none"

(* onnx.checker.check_model(path): "corrupt" and "inputs" files do not parse *)
checker(files, path) ==
    IF files[path].kind = "onnx" THEN files[path].check ELSE "ValidationError"

(* a faulty variant of _check_model: True after the ValidationError too *)
_check_model_IgnoringValidation(files, onnx_file) ==
    IF ~isfile(files, onnx_file) THEN Some(FALSE)
    ELSE IF checker(files, onnx_file) = "OtherError" THEN None
    ELSE Some(TRUE)

_check_model(files, onnx_file) ==
    IF ~isfile(files, onnx_file) THEN Some(FALSE)
    ELSE IF checker(files, onnx_file) = "pass" THEN Some(TRUE)
    ELSE IF checker(files, onnx_file) = "ValidationError" THEN Some(FALSE)
    ELSE None

_check_model_log(files, onnx_file, success_message, fail_message) ==
    IF ~isfile(files, onnx_file) THEN <<fail_message>>
    ELSE IF checker(files, onnx_file) = "pass"
         THEN <<success_message, "Successfully checked onnx file">>
    ELSE IF checker(files, onnx_file) = "ValidationError"
         THEN <<success_message, "Error while checking generated ONNX file">>
    ELSE <<success_message>>

(* The tail every transformation stage shares: assign the stage's exported  *)
(* flag from _check_model, then replace intermediate_results or raise.       *)
(* a faulty variant of NewResults: the artifact is appended *)
(* a transformation serializes its result to the path it was given: the    *)
(* exporter's f, session_options.optimized_model_filepath, save_model's    *)
(* output_path                                                              *)
WriteArtifact_OverBase(r, path, file) == [r EXCEPT !.fs[base_onnx_file] = file]
WriteArtifact(r, path, file) == [r EXCEPT !.fs[path] = file]

NewResults_Appending(ir, artifact) == Append(ir, artifact)
NewResults_Prepending(ir, artifact) == <<artifact>> \o ir
NewResults(ir, artifact) == <<artifact>>

(* state.info.<field> = value *)
SetInfo_Resetting(r, field, value) == [r EXCEPT !.info = [NoInfo EXCEPT ![field] = value]]
SetInfo(r, field, value) == [r EXCEPT !.info[field] = value]

Gate(r, flag, artifact, success_message, fail_message, msg) ==
    LET checked == _check_model(r.fs, artifact)
        r1 == [Call(r, "_check_model") EXCEPT
                 !.log = @ \o _check_model_log(r.fs, artifact, success_message, fail_message)]
    IN  IF checked = None THEN Raise(r1, Error("OtherError", "onnx.checker"))
        ELSE LET r2 == SetInfo(r1, flag, checked)
             IN  IF checked[1]
                 THEN [r2 EXCEPT !.intermediate_results = NewResults(@, artifact)]
                 ELSE Raise(r2, Error(GroqitStageError, msg))

save_inputs(r, path) == [Call(r, "save_inputs") EXCEPT !.fs[path] = InputsFile(r.inputs)]

----------------------------------------------------------------------------
(* ReceiveOnnxModel.fire *)

(* str(model.opset_import): the text of the repeated field, as the tokens   *)
(* the regular expression sees: a run of digits, or text without a digit.   *)
Text(t) == [digits |-> FALSE, text |-> t, number |-> 0]
Digits(n) == [digits |-> TRUE, text |-> "", number |-> n]

RECURSIVE str_opset_import(_)
str_opset_import(opset_import) ==
    IF opset_import = <<>> THEN <<>>
    ELSE LET e == Head(opset_import)
         IN  (IF e.domain = "" THEN <<>> ELSE <<Text("domain: "), Text(e.domain)>>)
             \o <<Text("version: "), Digits(e.version)>>
             \o str_opset_import(Tail(opset_import))

(* re.search(r"\d+", s): the first run of digits, or None *)
re_search_digits(s) ==
    IF \E i \in 1..Len(s) : s[i].digits
    THEN Some(s[CHOOSE i \in 1..Len(s) :
                  s[i].digits /\ \A j \in 1..(i - 1) : ~s[j].digits].number)
    ELSE None

(* d.dim_value of a dimension: 0 when the oneof holds a dim_param *)
dim_value(d) == IF d.which = "dim_value" THEN d.value ELSE 0

input_shapes(graph_input) ==
    [i \in 1..Len(graph_input) |->
        [j \in 1..Len(graph_input[i]) |-> dim_value(graph_input[i][j])]]

(* the loops of lines 79-81: some dimension of some input is < 1            *)
(* (dim_value is always an int, so "not isinstance(dimension, int)" is     *)
(* never true)                                                              *)
HasDynamicDimension(shapes) ==
    \E i \in 1..Len(shapes) : \E j \in 1..Len(shapes[i]) : shapes[i][j] < 1

OpsetAdvised(opset) == opset < DEFAULT_ONNX_OPSET /\ opset >= MINIMUM_ONNX_OPSET
OpsetRejected(opset) == opset < MINIMUM_ONNX_OPSET

(* shutil.move(src, dst) *)
move_Copying(r, src, dst) == [Call(r, "shutil.move") EXCEPT !.fs[dst] = r.fs[src]]
move(r, src, dst) ==
    [Call(r, "shutil.move") EXCEPT !.fs = [@ EXCEPT ![dst] = r.fs[src], ![src] = NoFile]]

ReceiveOnnxModel_fire(m, inp, ir, inf, files) ==
    LET r0 == Begin(inp, ir, inf, files)
    IN
    IF m.kind # "str" THEN Raise(r0, Error(GroqitStageError, "not an ONNX file"))
    ELSE IF ~EndsWithOnnx(m.path)
    THEN Raise(r0, Error(GroqitStageError, "not a path to an ONNX model"))
    ELSE
    LET r1 == Call([r0 EXCEPT !.inputs = dict(zip(keys(inp), values(inp)))], "onnx.load")
        file == files[m.path]
    IN
    IF file.kind = "none" THEN Raise(r1, Error("FileNotFoundError", "onnx.load"))
    ELSE IF file.kind # "onnx" THEN Raise(r1, Error("DecodeError", "onnx.load"))
    ELSE
    LET match == re_search_digits(str_opset_import(file.opset_import))
    IN
    IF match = None THEN Raise(r1, Error("AttributeError", "re.search(...).group"))
    ELSE
    LET opset == match[1]
    IN
    IF HasDynamicDimension(input_shapes(file.graph_input))
    THEN Raise(r1, Error(GroqitStageError, "dynamic input dimensions"))
    ELSE IF OpsetRejected(opset) /\ ~OpsetAdvised(opset)
    THEN Raise(r1, [Error(GroqitStageError, "opset not supported") EXCEPT
                      !.offending = <<opset>>])
    ELSE
    LET r2 == IF OpsetAdvised(opset) THEN Emit(r1, "opset advisory") ELSE r1
        r3 == move(r2, m.path, base_onnx_file)
        r4 == save_inputs(r3, original_inputs_file)
    IN  Gate(r4, "base_onnx_exported", base_onnx_file,
             "Success receiving ONNX Model", "Failed receiving ONNX Model",
             "Unable to process ONNX Model")

----------------------------------------------------------------------------
(* ExportPytorchModel.fire *)

(* torch.onnx.export either raises or writes base_onnx_file; what it wrote  *)
(* is a file the checker passes, rejects or fails on.                       *)
TransformOutcomes == {"raise"} \cup Checks

ExportedShape == <<DimValue(1), DimValue(3)>>

(* the first user-provided key that is not a parameter of forward, or None *)
FirstUnknownArg(user_provided_args, all_args) ==
    IF \E i \in 1..Len(user_provided_args) : user_provided_args[i] \notin Range(all_args)
    THEN Some(user_provided_args[
            CHOOSE i \in 1..Len(user_provided_args) :
                /\ user_provided_args[i] \notin Range(all_args)
                /\ \A j \in 1..(i - 1) : user_provided_args[j] \in Range(all_args)])
    ELSE None

(* lines 177-182: one value per parameter of forward, None when not given *)
PositionalInputs_SuppliedOnly(inp, all_args) == values(inp)
PositionalInputs(inp, all_args) ==
    [i \in 1..Len(all_args) |->
        IF all_args[i] \in Range(keys(inp)) THEN getitem(inp, all_args[i]) ELSE None]

ExportPytorchModel_fire(m, inp, ir, inf, files, exported) ==
    LET r0 == Begin(inp, ir, inf, files)
    IN
    IF m.kind \notin {"nn.Module", "ScriptModule"}
    THEN Raise(r0, Error(GroqitStageError, "not a torch.nn.Module"))
    ELSE
    LET unknown == IF m.kind = "ScriptModule" THEN None
                   ELSE FirstUnknownArg(keys(inp), m.all_args)
    IN
    IF unknown # None
    THEN Raise(r0, [Error("ValueError", "input name not found in forward") EXCEPT
                      !.offending = unknown, !.listing = m.all_args])
    ELSE
    LET dummy_inputs == IF m.kind = "ScriptModule" THEN values(inp)
                        ELSE PositionalInputs(inp, m.all_args)
        dummy_input_names == IF m.kind = "ScriptModule" THEN keys(inp) ELSE m.all_args
        r1 == Call([r0 EXCEPT !.info.opset = Some(DEFAULT_ONNX_OPSET)], "torch.onnx.export")
    IN
    IF exported = "raise" THEN Raise(r1, Error("OtherError", "torch.onnx.export"))
    ELSE
    LET written == OnnxFile(<<[domain |-> "", version |-> DEFAULT_ONNX_OPSET]>>,
                            [i \in 1..Len(dummy_input_names) |-> ExportedShape],
                            exported)
        r2 == [r1 EXCEPT !.fs[base_onnx_file] = written,
                         !.inputs = dict(zip(dummy_input_names, dummy_inputs))]
        r3 == save_inputs(r2, original_inputs_file)
    IN  Gate(r3, "base_onnx_exported", base_onnx_file,
             "Success exporting model to ONNX", "Failed exporting model to ONNX",
             "Unable to export model to ONNX")

----------------------------------------------------------------------------
(* OptimizeOnnxModel.fire *)

(* onnxruntime.InferenceSession(input_onnx, session_options) raises, or     *)
(* serializes the optimized graph to session_options.optimized_model_filepath *)
OptimizeOnnxModel_fire(m, inp, ir, inf, files, optimized) ==
    LET r0 == Begin(inp, ir, inf, files)
    IN
    IF Len(ir) = 0 THEN Raise(r0, Error("IndexError", "intermediate_results[0]"))
    ELSE
    LET input_onnx == ir[1]
        r1 == Call(r0, "onnxruntime.InferenceSession")
    IN
    IF files[input_onnx].kind # "onnx" \/ optimized = "raise"
    THEN Raise(r1, Error("OtherError", "onnxruntime.InferenceSession"))
    ELSE
    LET written == OnnxFile(files[input_onnx].opset_import,
                            files[input_onnx].graph_input, optimized)
        r2 == WriteArtifact(r1, opt_onnx_file, written)
    IN  Gate(r2, "opt_onnx_exported", opt_onnx_file,
             "Success optimizing ONNX model", "Failed optimizing ONNX model",
             "Unable to optimize ONNX file")

----------------------------------------------------------------------------
(* CheckOnnxCompatibility.fire *)

(* onnx_helpers.check_ops(input_onnx, use_sdk) raises (None) or returns     *)
(* (ops, unsupported_ops)                                                    *)
OpLists == {<<>>, <<"Conv">>, <<"Einsum">>, <<"Conv", "Einsum">>}
OracleReports ==
    {rep \in [ops : OpLists \ {<<"Einsum">>}, unsupported : OpLists] :
        Range(rep.unsupported) \subseteq Range(rep.ops)}
OracleOutcomes == {None} \cup {Some(rep) : rep \in OracleReports}

(* ", ".join(names) as the tokens of the resulting string *)
RECURSIVE join(_)
join(names) ==
    IF Len(names) = 0 THEN <<>>
    ELSE IF Len(names) = 1 THEN <<names[1]>>
    ELSE <<names[1], ", ">> \o join(Tail(names))

(* faulty variants of AllOpsSupported: one conjunct is missing *)
AllOpsSupported_IgnoringEmptyOps(ops, unsupported_ops) == Len(unsupported_ops) = 0
AllOpsSupported_IgnoringUnsupported(ops, unsupported_ops) == Len(ops) # 0

(* lines 324-327 *)
AllOpsSupported(ops, unsupported_ops) ==
    Len(unsupported_ops) = 0 /\ Len(ops) # 0

CheckOnnxCompatibility_fire(m, inp, ir, inf, files, dependencies, oracle) ==
    LET r0 == Call(Begin(inp, ir, inf, files), "sdk.check_dependencies")
    IN
    IF ~dependencies
    THEN Raise(r0, Error(GroqitStageError, "sdk.check_dependencies"))
    ELSE IF Len(ir) = 0 THEN Raise(r0, Error("IndexError", "intermediate_results[0]"))
    ELSE
    LET r1 == Call(r0, "onnx_helpers.check_ops")
    IN
    IF oracle = None THEN Raise(r1, Error("OtherError", "onnx_helpers.check_ops"))
    ELSE
    LET ops == oracle[1].ops
        unsupported_ops == oracle[1].unsupported
        supported == AllOpsSupported(ops, unsupported_ops)
        r2 == Emit([r1 EXCEPT !.info.opt_onnx_ops = Some(ops),
                              !.info.opt_onnx_unsupported_ops = Some(unsupported_ops),
                              !.info.opt_onnx_all_ops_supported = Some(supported)],
                   "Model has unsupported ops")
    IN
    IF ~supported
    THEN Raise(r2, [Error(GroqitStageError, "operations not supported by Groq Compiler")
                      EXCEPT !.listing = join(unsupported_ops)])
    ELSE r2

----------------------------------------------------------------------------
(* ConvertOnnxToFp16.fire *)

(* convert_float_to_float16 raises, or save_model writes converted_onnx_file *)
ConvertOnnxToFp16_fire(m, inp, ir, inf, files, converted) ==
    LET r0 == Begin(inp, ir, inf, files)
    IN
    IF Len(ir) = 0 THEN Raise(r0, Error("IndexError", "intermediate_results[0]"))
    ELSE
    LET input_onnx == ir[1]
        r1 == Call(r0, "onnx.load_model")
    IN
    IF files[input_onnx].kind = "none"
    THEN Raise(r1, Error("FileNotFoundError", "onnx.load_model"))
    ELSE IF files[input_onnx].kind # "onnx"
    THEN Raise(r1, Error("DecodeError", "onnx.load_model"))
    ELSE
    LET r2 == Call(r1, "convert_float_to_float16")
    IN
    IF converted = "raise" THEN Raise(r2, Error("OtherError", "convert_float_to_float16"))
    ELSE
    LET output_path == converted_onnx_file
        written == OnnxFile(files[input_onnx].opset_import,
                            files[input_onnx].graph_input, converted)
        r3 == WriteArtifact(Call(r2, "save_model"), output_path, written)
    IN  Gate(r3, "converted_onnx_exported", output_path,
             "Success converting ONNX model to fp16",
             "Failed converting ONNX model to fp16",
             "conversion to float16 was not successful")

----------------------------------------------------------------------------
(* The executor: the stages of a sequence fire in order over one state, and *)
(* the first exception that leaves a stage ends the build.                  *)

receive_onnx == "receive_onnx"
export_pytorch == "export_pytorch"
optimize_onnx == "optimize_onnx"
check_compatibility == "check_compatibility"
fp16_conversion == "fp16_conversion"

StageNames == {receive_onnx, export_pytorch, optimize_onnx, check_compatibility,
               fp16_conversion}

OnnxSequence == <<receive_onnx, optimize_onnx, check_compatibility, fp16_conversion>>
PytorchSequence == <<export_pytorch, optimize_onnx, check_compatibility, fp16_conversion>>

(* a build that runs the optimizer again on the state it has left *)
RerunSequences == {<<receive_onnx, optimize_onnx, optimize_onnx>>,
                   <<export_pytorch, optimize_onnx, optimize_onnx>>}

Sequences ==
    {OnnxSequence, PytorchSequence} \cup RerunSequences
        \cup (SeqsUpTo(StageNames, MaxCustomLen) \ {<<>>})

IsPrefix(s, t) == Len(s) <= Len(t) /\ SubSeq(t, 1, Len(s)) = s

MayFire(stage) ==
    /\ status = "running"
    /\ {s \in Sequences : IsPrefix(Append(ran, stage), s)} # {}

Snapshot == [model |-> model, inputs |-> inputs, intermediate_results |-> intermediate_results,
             info |-> info, fs |-> fs]

(* fire_helper: the state a run of fire leaves, and the end of the build    *)
(* when an exception left it                                                 *)
Fired(stage, r) ==
    /\ inputs' = r.inputs
    /\ intermediate_results' = r.intermediate_results
    /\ info' = r.info
    /\ fs' = r.fs
    /\ err' = r.err
    /\ calls' = r.calls
    /\ log' = r.log
    /\ entry' = Snapshot
    /\ ran' = Append(ran, stage)
    /\ status' = IF r.err = NoError THEN "running" ELSE "failed"
    /\ UNCHANGED model

(* The outcome of a collaborator is drawn only in a run that calls it: in a *)
(* run that does not, the outcome is the first of its set.                 *)
Drawn(r, fn, outcome, unused) == fn \in Range(r.calls) \/ outcome = unused

ReceiveOnnxModel ==
    /\ MayFire(receive_onnx)
    /\ Fired(receive_onnx,
             ReceiveOnnxModel_fire(model, inputs, intermediate_results, info, fs))

ExportPytorchModel ==
    /\ MayFire(export_pytorch)
    /\ \E exported \in TransformOutcomes :
          LET r == ExportPytorchModel_fire(model, inputs, intermediate_results, info, fs,
                                           exported)
          IN  /\ Drawn(r, "torch.onnx.export", exported, "raise")
              /\ Fired(export_pytorch, r)

OptimizeOnnxModel ==
    /\ MayFire(optimize_onnx)
    /\ \E optimized \in TransformOutcomes :
          LET r == OptimizeOnnxModel_fire(model, inputs, intermediate_results, info, fs,
                                          optimized)
          IN  /\ Drawn(r, "onnxruntime.InferenceSession", optimized, "raise")
              /\ Fired(optimize_onnx, r)

CheckOnnxCompatibility ==
    /\ MayFire(check_compatibility)
    /\ \E dependencies \in BOOLEAN, oracle \in OracleOutcomes :
          LET r == CheckOnnxCompatibility_fire(model, inputs, intermediate_results, info,
                                               fs, dependencies, oracle)
          IN  /\ Drawn(r, "onnx_helpers.check_ops", oracle, None)
              /\ Fired(check_compatibility, r)

ConvertOnnxToFp16 ==
    /\ MayFire(fp16_conversion)
    /\ \E converted \in TransformOutcomes :
          LET r == ConvertOnnxToFp16_fire(model, inputs, intermediate_results, info, fs,
                                          converted)
          IN  /\ Drawn(r, "convert_float_to_float16", converted, "raise")
              /\ Fired(fp16_conversion, r)

(* the last stage of the sequence returned: the build is complete *)
Finish ==
    /\ status = "running"
    /\ ran \in Sequences
    /\ status' = "done"
    /\ UNCHANGED <<model, inputs, intermediate_results, info, fs, ran, err, entry,
                   calls, log>>

----------------------------------------------------------------------------
(* The build.State of a new build, and the files the user has *)

Models ==
    {Model("str", UserOnnxPath, <<>>), Model("str", UserOtherPath, <<>>),
     Model("object", "", <<>>)}
    \cup {Model(k, "", sig) : k \in {"nn.Module", "ScriptModule"}, sig \in Signatures}

UserFiles(m) ==
    IF m.kind # "str" THEN {NoFile}
    ELSE IF m.path = UserOnnxPath THEN {NoFile, CorruptFile} \cup OnnxFiles
    ELSE {CorruptFile}

NoFiles == [p \in Paths |-> NoFile]

Init ==
    /\ model \in Models
    /\ inputs \in InputDicts
    /\ intermediate_results = <<>>
    /\ info = NoInfo
    /\ \E file \in UserFiles(model) :
          fs = IF model.kind = "str" THEN [NoFiles EXCEPT ![model.path] = file] ELSE NoFiles
    /\ ran = <<>>
    /\ status = "running"
    /\ err = NoError
    /\ entry = Snapshot
    /\ calls = <<>>
    /\ log = <<>>

Next ==
    \/ ReceiveOnnxModel
    \/ ExportPytorchModel
    \/ OptimizeOnnxModel
    \/ CheckOnnxCompatibility
    \/ ConvertOnnxToFp16
    \/ Finish

Spec == Init /\ [][Next]_vars

----------------------------------------------------------------------------
(* What the claims speak of *)

LastFired(stage) == ran # <<>> /\ ran[Len(ran)] = stage
Failed == status = "failed"
Returned(stage) == LastFired(stage) /\ err = NoError

(* the file at state.model when the last stage was entered *)
EntryModelFile == IF model.path \in Paths THEN entry.fs[model.path] ELSE NoFile

(* the stage was handed a path to a file that onnx.load parses *)
ReceivedOnnxModel ==
    /\ LastFired(receive_onnx)
    /\ model.kind = "str"
    /\ model.path = UserOnnxPath
    /\ EntryModelFile.kind = "onnx"

(* a declared graph input has a dimension that is symbolic or not positive *)
DeclaresDynamicDimension(file) ==
    \E i \in 1..Len(file.graph_input) : \E j \in 1..Len(file.graph_input[i]) :
        \/ file.graph_input[i][j].which = "dim_param"
        \/ file.graph_input[i][j].value <= 0

(* the versions the file declares for the default ONNX domain *)
DeclaredOpsets(file) ==
    {file.opset_import[i].version :
        i \in {k \in 1..Len(file.opset_import) : file.opset_import[k].domain = ""}}

NothingWritten == fs = entry.fs

(* C1: a received ONNX model with a dynamic input dimension makes           *)
(* ReceiveOnnxModel.fire fail with a GroqitStageError and write nothing:    *)
(* no file is created or moved, and intermediate_results and                *)
(* info.base_onnx_exported are as on entry.                                 *)
C1_DynamicRejectedByStageError ==
    (ReceivedOnnxModel /\ DeclaresDynamicDimension(EntryModelFile)) =>
        /\ Failed
        /\ err.type = GroqitStageError
        /\ NothingWritten
        /\ fs[base_onnx_file] = NoFile
        /\ fs[original_inputs_file] = NoFile
        /\ fs[model.path] = EntryModelFile
        /\ intermediate_results = entry.intermediate_results
        /\ info.base_onnx_exported = entry.info.base_onnx_exported

(* C2: for a static-shape ONNX file that declares opset v for the default   *)
(* domain (and that the validator accepts), ReceiveOnnxModel.fire fails     *)
(* with a stage error and writes nothing when v < MINIMUM_ONNX_OPSET,       *)
(* returns with an advisory message when MINIMUM_ONNX_OPSET <= v <          *)
(* DEFAULT_ONNX_OPSET, and returns without one when v >= DEFAULT_ONNX_OPSET. *)
C2_OpsetDecidesOutcome ==
    \A v \in DeclaredOpsets(EntryModelFile) :
        ( /\ ReceivedOnnxModel
          /\ ~DeclaresDynamicDimension(EntryModelFile)
          /\ DeclaredOpsets(EntryModelFile) = {v}
          /\ EntryModelFile.check = "pass" ) =>
            /\ v < MINIMUM_ONNX_OPSET =>
                    Failed /\ err.type = GroqitStageError /\ NothingWritten
            /\ (MINIMUM_ONNX_OPSET <= v /\ v < DEFAULT_ONNX_OPSET) =>
                    ~Failed /\ "opset advisory" \in Range(log)
            /\ v >= DEFAULT_ONNX_OPSET =>
                    ~Failed /\ "opset advisory" \notin Range(log)

(* C3: when a key of state.inputs is not a parameter of the model's forward, *)
(* ExportPytorchModel.fire on a torch.nn.Module or torch.jit.ScriptModule    *)
(* fails with a stage error naming that key and all the parameters, before   *)
(* the exporter is called: base_onnx_file and intermediate_results are as on *)
(* entry.                                                                    *)
HasUnknownInput ==
    \E i \in 1..Len(entry.inputs) : entry.inputs[i].name \notin Range(model.all_args)

C3_UnknownInputRejected ==
    ( /\ LastFired(export_pytorch)
      /\ model.kind \in {"nn.Module", "ScriptModule"}
      /\ HasUnknownInput ) =>
        /\ Failed
        /\ err.type = GroqitStageError
        /\ Len(err.offending) = 1
        /\ err.offending[1] \in Range(keys(entry.inputs)) \ Range(model.all_args)
        /\ err.listing = model.all_args
        /\ "torch.onnx.export" \notin Range(calls)
        /\ fs[base_onnx_file] = entry.fs[base_onnx_file]
        /\ intermediate_results = entry.intermediate_results

(* C4: once the oracle has answered, CheckOnnxCompatibility.fire fails      *)
(* exactly when the unsupported list is non-empty or the operator list is   *)
(* empty; the message of the failure holds every unsupported operator; on   *)
(* success opt_onnx_all_ops_supported is true and intermediate_results is   *)
(* the single artifact it was on entry.                                     *)
OracleAnswered ==
    /\ LastFired(check_compatibility)
    /\ "onnx_helpers.check_ops" \in Range(calls)
    /\ err.msg # "onnx_helpers.check_ops"

C4_CompatibilityVerdict ==
    OracleAnswered =>
        LET ops == info.opt_onnx_ops[1]
            unsupported == info.opt_onnx_unsupported_ops[1]
        IN  /\ Failed <=> (unsupported # <<>> \/ ops = <<>>)
            /\ Failed =>
                  /\ err.type = GroqitStageError
                  /\ \A i \in 1..Len(unsupported) : unsupported[i] \in Range(err.listing)
            /\ ~Failed =>
                  /\ info.opt_onnx_all_ops_supported = Some(TRUE)
                  /\ intermediate_results = entry.intermediate_results
                  /\ Len(intermediate_results) = 1

C4_Witness ==
    /\ OracleAnswered
    /\ Failed
    /\ Len(info.opt_onnx_unsupported_ops[1]) = 2
    /\ Len(err.listing) = 3

(* C5: in a build that runs ingest or export, optimize, operator check and  *)
(* downcast in this order, an operator check that finds an unsupported      *)
(* operator ends the build: ConvertOnnxToFp16 does not fire,                *)
(* converted_onnx_file is not written, info.converted_onnx_exported is not  *)
(* set and intermediate_results holds the optimized artifact.               *)
StandardRun == IsPrefix(ran, OnnxSequence) \/ IsPrefix(ran, PytorchSequence)

FoundUnsupported ==
    /\ StandardRun
    /\ Len(ran) >= 3
    /\ info.opt_onnx_unsupported_ops # None
    /\ info.opt_onnx_unsupported_ops[1] # <<>>

C5_HaltsBeforeDowncast ==
    FoundUnsupported =>
        /\ Failed
        /\ Len(ran) = 3
        /\ fp16_conversion \notin Range(ran)
        /\ fs[converted_onnx_file] = NoFile
        /\ info.converted_onnx_exported = None
        /\ intermediate_results = <<opt_onnx_file>>

C5_Witness ==
    /\ FoundUnsupported
    /\ Failed
    /\ info.opt_onnx_unsupported_ops[1] = <<"Einsum">>
    /\ err.listing = <<"Einsum">>

(* C6: for a static-shape ONNX file that declares a supported opset, the    *)
(* build receive, optimize, check, convert fails only where a collaborator  *)
(* fails, the validator rejects an artifact or the oracle reports an        *)
(* unsupported or empty operator list; and when it is done,                 *)
(* intermediate_results is [converted_onnx_file] and the four flags of      *)
(* state.info are true.                                                     *)
OriginalModelFile == IF Len(ran) <= 1 THEN EntryModelFile ELSE fs[base_onnx_file]

CollaboratorFailures ==
    {"onnx.checker", "Unable to process ONNX Model",
     "onnxruntime.InferenceSession", "Unable to optimize ONNX file",
     "sdk.check_dependencies", "onnx_helpers.check_ops",
     "operations not supported by Groq Compiler",
     "onnx.load_model", "convert_float_to_float16",
     "conversion to float16 was not successful"}

C6_HappyPathCompletes ==
    ( /\ ran # <<>>
      /\ IsPrefix(ran, OnnxSequence)
      /\ model.kind = "str"
      /\ model.path = UserOnnxPath
      /\ OriginalModelFile.kind = "onnx"
      /\ ~DeclaresDynamicDimension(OriginalModelFile)
      /\ DeclaredOpsets(OriginalModelFile) # {}
      /\ \A v \in DeclaredOpsets(OriginalModelFile) : v >= MINIMUM_ONNX_OPSET ) =>
        /\ Failed => err.msg \in CollaboratorFailures
        /\ (status = "done" /\ ran = OnnxSequence) =>
              /\ intermediate_results = <<converted_onnx_file>>
              /\ info.base_onnx_exported = Some(TRUE)
              /\ info.opt_onnx_exported = Some(TRUE)
              /\ info.opt_onnx_all_ops_supported = Some(TRUE)
              /\ info.converted_onnx_exported = Some(TRUE)

(* C7: once a stage has returned, intermediate_results has exactly one      *)
(* element, the slot of the last stage that returned and writes an          *)
(* artifact; CheckOnnxCompatibility leaves it as it was.                    *)
Succeeded == IF Failed THEN SubSeq(ran, 1, Len(ran) - 1) ELSE ran

WritesArtifact(stage) == stage # check_compatibility
Slot(stage) ==
    CASE stage \in {receive_onnx, export_pytorch} -> base_onnx_file
      [] stage = optimize_onnx -> opt_onnx_file
      [] stage = fp16_conversion -> converted_onnx_file
      [] OTHER -> ""

LastArtifact ==
    LET written == SelectSeq(Succeeded, WritesArtifact)
    IN  IF written = <<>> THEN <<>> ELSE <<Slot(written[Len(written)])>>

C7_SingleCurrentArtifact ==
    /\ Succeeded # <<>> =>
          /\ Len(intermediate_results) = 1
          /\ intermediate_results = LastArtifact
    /\ LastFired(check_compatibility) => intermediate_results = entry.intermediate_results

C7_Witness ==
    /\ ran = OnnxSequence
    /\ ~Failed
    /\ intermediate_results = <<converted_onnx_file>>
    /\ entry.intermediate_results = <<opt_onnx_file>>

(* C8: a stage that writes an artifact returns only when the checker passes *)
(* the file in its slot, and then intermediate_results is that slot and the *)
(* stage's exported flag is true; a stage whose validator returned false    *)
(* raises a stage error and leaves intermediate_results alone; so while the *)
(* build runs, intermediate_results names only files the checker passes.    *)
Flag(stage) ==
    CASE stage \in {receive_onnx, export_pytorch} -> "base_onnx_exported"
      [] stage = optimize_onnx -> "opt_onnx_exported"
      [] stage = fp16_conversion -> "converted_onnx_exported"
      [] OTHER -> "opt_onnx_all_ops_supported"

Passes(path) == fs[path].kind = "onnx" /\ fs[path].check = "pass"

ValidatorReturnedFalse(stage) ==
    /\ LastFired(stage)
    /\ "_check_model" \in Range(calls)
    /\ ~Passes(Slot(stage))
    /\ err.msg # "onnx.checker"

C8_ValidatorGate ==
    /\ \A stage \in StageNames \ {check_compatibility} :
          /\ Returned(stage) =>
                /\ Passes(Slot(stage))
                /\ intermediate_results = <<Slot(stage)>>
                /\ info[Flag(stage)] = Some(TRUE)
          /\ ValidatorReturnedFalse(stage) =>
                /\ Failed
                /\ err.type = GroqitStageError
                /\ info[Flag(stage)] = Some(FALSE)
                /\ intermediate_results = entry.intermediate_results
    /\ status = "running" =>
          \A i \in 1..Len(intermediate_results) : Passes(intermediate_results[i])

C8_Witness ==
    /\ ValidatorReturnedFalse(optimize_onnx)
    /\ Failed
    /\ fs[opt_onnx_file].kind = "onnx"
    /\ intermediate_results = <<base_onnx_file>>

(* C9 as stated: when a stage raises, state.model, state.inputs,            *)
(* state.intermediate_results and every field of state.info are as they     *)
(* were when the stage was entered.                                         *)
C9_FailureLeavesStateUntouched ==
    Failed =>
        /\ model = entry.model
        /\ inputs = entry.inputs
        /\ intermediate_results = entry.intermediate_results
        /\ info = entry.info

(* C9 amended: when a stage raises, state.model and                         *)
(* state.intermediate_results are as they were when the stage was entered,  *)
(* and so is every field of state.info that the stage does not own, and     *)
(* state.inputs unless the stage is ExportPytorchModel; the fields of       *)
(* state.info that the failing stage owns may already be assigned.          *)
InfoFields == DOMAIN NoInfo
Owned(stage) ==
    CASE stage = receive_onnx -> {"base_onnx_exported"}
      [] stage = export_pytorch -> {"base_onnx_exported", "opset"}
      [] stage = optimize_onnx -> {"opt_onnx_exported"}
      [] stage = check_compatibility ->
            {"opt_onnx_ops", "opt_onnx_unsupported_ops", "opt_onnx_all_ops_supported"}
      [] stage = fp16_conversion -> {"converted_onnx_exported"}
      [] OTHER -> {}

C9_FailureKeepsFrontier ==
    Failed =>
        /\ model = entry.model
        /\ intermediate_results = entry.intermediate_results
        /\ \A f \in InfoFields \ Owned(ran[Len(ran)]) : info[f] = entry.info[f]
        /\ ~LastFired(export_pytorch) => inputs = entry.inputs

C9_Witness ==
    /\ Failed
    /\ LastFired(check_compatibility)
    /\ entry.info.opt_onnx_unsupported_ops = None
    /\ info.opt_onnx_unsupported_ops = Some(<<"Einsum">>)
    /\ intermediate_results = <<opt_onnx_file>>

(* C10: every exception that leaves a stage is a GroqitStageError *)
C10_OnlyStageErrors ==
    Failed => err.type = GroqitStageError

(* C11: OptimizeOnnxModel, CheckOnnxCompatibility and ConvertOnnxToFp16,    *)
(* entered with an intermediate_results that does not hold exactly one      *)
(* artifact, fail at once with a GroqitStageError: no collaborator is       *)
(* called and no file is written.                                           *)
ConsumesArtifact(stage) == stage \in {optimize_onnx, check_compatibility, fp16_conversion}

C11_SingleInputRequired ==
    ( /\ ran # <<>>
      /\ ConsumesArtifact(ran[Len(ran)])
      /\ Len(entry.intermediate_results) # 1 ) =>
        /\ Failed
        /\ err.type = GroqitStageError
        /\ calls = <<>>
        /\ NothingWritten

(* C12: a run of a stage changes no artifact slot but its own:              *)
(* base_onnx_file changes only in ReceiveOnnxModel and ExportPytorchModel,  *)
(* opt_onnx_file only in OptimizeOnnxModel, converted_onnx_file only in     *)
(* ConvertOnnxToFp16; so in a build that runs the stages in order, the file *)
(* a stage has left in its slot is as it was whenever a later stage is      *)
(* done.                                                                    *)
ArtifactSlots == {base_onnx_file, opt_onnx_file, converted_onnx_file}

C12_SingleWriterPerSlot ==
    /\ \A p \in ArtifactSlots :
          fs[p] # entry.fs[p] => (ran # <<>> /\ Slot(ran[Len(ran)]) = p)
    /\ (StandardRun /\ Len(ran) >= 2) => fs[base_onnx_file] = entry.fs[base_onnx_file]
    /\ (StandardRun /\ Len(ran) = 4) => fs[opt_onnx_file] = entry.fs[opt_onnx_file]

C12_Witness ==
    /\ ran = PytorchSequence
    /\ ~Failed
    /\ fs[converted_onnx_file].kind = "onnx"
    /\ entry.fs[converted_onnx_file] = NoFile
    /\ fs[opt_onnx_file].kind = "onnx"
    /\ fs[base_onnx_file].kind = "onnx"

(* C13: a run of a stage changes no file but the artifact in its own slot:  *)
(* it creates no second file, and removes or relocates no file that was     *)
(* there on entry, the user's model file at state.model included.           *)
C13_OneNewFileOnly ==
    ran # <<>> =>
        /\ \A p \in Paths : fs[p] # entry.fs[p] => p = Slot(ran[Len(ran)])
        /\ \A p \in Paths : entry.fs[p] # NoFile => fs[p] # NoFile
        /\ model.path \in Paths => fs[model.path] = EntryModelFile

(* C14: a run of a stage assigns no field of state.info but the fields of   *)
(* its role (base_onnx_exported and opset: ingest and export;               *)
(* opt_onnx_exported: optimize; opt_onnx_ops, opt_onnx_unsupported_ops and  *)
(* opt_onnx_all_ops_supported: operator check; converted_onnx_exported:     *)
(* downcast); so in a build that runs the stages in order, a field that an  *)
(* earlier stage has set keeps its value.                                   *)
C14_InfoFieldsOwned ==
    ran # <<>> =>
        /\ \A f \in InfoFields \ Owned(ran[Len(ran)]) : info[f] = entry.info[f]
        /\ StandardRun =>
              \A f \in InfoFields : entry.info[f] # None => info[f] = entry.info[f]

C14_Witness ==
    /\ ran = PytorchSequence
    /\ ~Failed
    /\ info.converted_onnx_exported = Some(TRUE)
    /\ entry.info.converted_onnx_exported = None
    /\ entry.info.opset = Some(DEFAULT_ONNX_OPSET)
    /\ entry.info.base_onnx_exported = Some(TRUE)
    /\ entry.info.opt_onnx_exported = Some(TRUE)
    /\ entry.info.opt_onnx_ops # None

(* C15: for every path and every outcome of the checker, _check_model       *)
(* returns a boolean and does not raise; it returns true exactly when the   *)
(* file exists and the checker accepts it.                                  *)
C15_ValidatorTotal ==
    \A p \in Paths :
        /\ _check_model(fs, p) \in {Some(TRUE), Some(FALSE)}
        /\ _check_model(fs, p) = Some(TRUE) <=> (fs[p] # NoFile /\ checker(fs, p) = "pass")

(* C16: OptimizeOnnxModel, run again on the state a successful run of it    *)
(* has left (its input is opt_onnx_file), returns again whenever the        *)
(* artifact it produces passes the validator, and leaves the state as it    *)
(* found it: intermediate_results is [opt_onnx_file],                       *)
(* info.opt_onnx_exported is true, and the artifact is valid after both     *)
(* runs.                                                                    *)
SecondOptimize ==
    /\ Len(ran) >= 2
    /\ ran[Len(ran)] = optimize_onnx
    /\ ran[Len(ran) - 1] = optimize_onnx

C16_OptimizeIdempotent ==
    SecondOptimize =>
        /\ entry.intermediate_results = <<opt_onnx_file>>
        /\ entry.info.opt_onnx_exported = Some(TRUE)
        /\ entry.fs[opt_onnx_file].kind = "onnx" /\ entry.fs[opt_onnx_file].check = "pass"
        /\ ("_check_model" \in Range(calls) /\ Passes(opt_onnx_file)) =>
              /\ ~Failed
              /\ intermediate_results = <<opt_onnx_file>>
              /\ info.opt_onnx_exported = Some(TRUE)
              /\ model = entry.model
              /\ inputs = entry.inputs
              /\ intermediate_results = entry.intermediate_results
              /\ info = entry.info

C16_Witness ==
    /\ SecondOptimize
    /\ ran = <<receive_onnx, optimize_onnx, optimize_onnx>>
    /\ ~Failed
    /\ "_check_model" \in Range(calls)
    /\ Passes(opt_onnx_file)

(* C17: for a torch.nn.Module whose forward declares the parameters P, and  *)
(* inputs whose keys are all in P, ExportPytorchModel.fire calls the        *)
(* exporter with one positional value per element of P, in the order of P;  *)
(* when it returns, state.inputs has exactly the keys P in that order, each *)
(* supplied parameter with the user's value and each unsupplied one with    *)
(* None; a parameter that is declared but not supplied raises no error.     *)
KnownInputsOnly ==
    /\ LastFired(export_pytorch)
    /\ model.kind = "nn.Module"
    /\ ~HasUnknownInput

ExportFailures == {"torch.onnx.export", "onnx.checker", "Unable to export model to ONNX"}

C17_PositionalInputsCompleted ==
    KnownInputsOnly =>
        /\ "torch.onnx.export" \in Range(calls)
        /\ Failed => err.msg \in ExportFailures
        /\ fs[base_onnx_file] # entry.fs[base_onnx_file] =>
              Len(fs[base_onnx_file].graph_input) = Len(model.all_args)
        /\ ~Failed =>
              /\ keys(inputs) = model.all_args
              /\ \A i \in 1..Len(model.all_args) :
                    inputs[i].value =
                        IF model.all_args[i] \in Range(keys(entry.inputs))
                        THEN getitem(entry.inputs, model.all_args[i])
                        ELSE None
              /\ fs[original_inputs_file] = InputsFile(inputs)

C17_Witness ==
    /\ KnownInputsOnly
    /\ ~Failed
    /\ model.all_args = <<"x", "y">>
    /\ keys(entry.inputs) = <<"y">>
    /\ inputs = <<Item("x", None), Item("y", Some("y"))>>

(* C18: ReceiveOnnxModel.fire on a model that is not a string, or a string  *)
(* that does not end in ".onnx", and ExportPytorchModel.fire on a model     *)
(* that is neither a torch.nn.Module nor a torch.jit.ScriptModule, raise a  *)
(* stage error before anything else: no collaborator is called, no file is  *)
(* written or moved, and state.inputs, state.intermediate_results and       *)
(* state.info are as on entry.                                              *)
WrongModelType ==
    \/ /\ LastFired(receive_onnx)
       /\ (model.kind # "str" \/ model.path # UserOnnxPath)
    \/ /\ LastFired(export_pytorch)
       /\ model.kind \notin {"nn.Module", "ScriptModule"}

C18_ModelTypeCheckedFirst ==
    WrongModelType =>
        /\ Failed
        /\ err.type = GroqitStageError
        /\ calls = <<>>
        /\ NothingWritten
        /\ inputs = entry.inputs
        /\ intermediate_results = entry.intermediate_results
        /\ info = entry.info

C18_Witness ==
    /\ WrongModelType
    /\ LastFired(receive_onnx)
    /\ model = Model("str", UserOtherPath, <<>>)
    /\ fs[UserOtherPath] = CorruptFile
    /\ Failed
    /\ err.msg = "not a path to an ONNX model"

(* C19: no stage assigns state.model; once ReceiveOnnxModel.fire has        *)
(* returned, state.model still names the path the user gave, where no file  *)
(* is left because it was moved to base_onnx_file; so ReceiveOnnxModel,     *)
(* run again on that state, does not return.                                *)
ReceivedBefore ==
    /\ Len(ran) >= 2
    /\ ran[Len(ran)] = receive_onnx
    /\ receive_onnx \in Range(SubSeq(ran, 1, Len(ran) - 1))

C19_ModelPathLeftDangling ==
    /\ model = entry.model
    /\ Returned(receive_onnx) =>
          /\ model.path = UserOnnxPath
          /\ fs[model.path] = NoFile
          /\ fs[base_onnx_file] = EntryModelFile
    /\ ReceivedBefore =>
          /\ entry.fs[model.path] = NoFile
          /\ Failed

C19_Witness ==
    /\ ReceivedBefore
    /\ ran = <<receive_onnx, receive_onnx>>
    /\ Failed
    /\ err.type = "FileNotFoundError"
    /\ fs[base_onnx_file].kind = "onnx"

====
